---- MODULE Spec2Model ----
(***************************************************************************)
(* The frame loop and the swapchain rebuild of src/src/main.cpp (class     *)
(* App and main), as a state machine.  The host program is one thread; its *)
(* position is pc.  The window system (resize and close requests) and the  *)
(* GPU queue (execution of submitted operations) run beside it.            *)
(***************************************************************************)
EXTENDS Naturals, Sequences, FiniteSets, TLC

\* src/src/main.cpp:19
MAX_FRAMES_IN_FLIGHT == 2

\* Largest framebuffer width and height of the window (0 is a minimized window).
MaxWidth == 2
MaxHeight == 1
\* Largest number of images a swapchain holds.
MaxImages == 2

NULL == "null"
\* An empty std::optional, one holding v, and the value of one that holds a value.
None == <<>>
Some(v) == <<v>>
value(opt) == opt[1]
\* No fence (a null handle): a fence argument is the set of fences to signal.
NoFence == {}
\* No image index, and what lies past the end of vk_sc_framebuffers.
NoImage == MaxImages + 1
Garbage == MaxImages + 2

Slots == 0 .. (MAX_FRAMES_IN_FLIGHT - 1)
Sizes == [width : 0 .. MaxWidth, height : 0 .. MaxHeight]
ZeroSize == [width |-> 0, height |-> 0]
\* The two handles a surface of the window can have: at most two are alive at once.
SurfaceIds == {"surfaceA", "surfaceB"}

\* Largest number of instance extensions GLFW asks for, of physical devices the
\* instance enumerates, and of queue families of a physical device.
MaxGlfwExtensions == 2
MaxDevices == 2
MaxFamilies == 2

\* VK_EXT_DEBUG_UTILS_EXTENSION_NAME (src/src/main.cpp:218-223), the layer that
\* gatherVkLayers requires in a debug build (lines 137-138), and
\* REQUIRED_DEVICE_EXTENSIONS (lines 16-17).
VK_EXT_DEBUG_UTILS_EXTENSION_NAME == "VK_EXT_debug_utils"
VK_LAYER_KHRONOS_validation == "VK_LAYER_KHRONOS_validation"
REQUIRED_DEVICE_EXTENSIONS == <<"VK_KHR_swapchain">>

\* The instance extensions glfwGetRequiredInstanceExtensions can name, and those the
\* Vulkan loader can offer.
SurfaceExtensionNames == {"VK_KHR_surface", "VK_KHR_xcb_surface"}
InstanceExtensionNames == SurfaceExtensionNames \cup {VK_EXT_DEBUG_UTILS_EXTENSION_NAME}

\* The sequences over S of length at most n, the set of the elements of a sequence, and
\* the sequences of length at most n without a repeated element.
RECURSIVE SeqsUpTo(_, _)
SeqsUpTo(S, n) ==
    IF n = 0 THEN {<<>>}
    ELSE LET shorter == SeqsUpTo(S, n - 1) IN
         shorter \cup {Append(q, x) : q \in shorter, x \in S}
Range(q) == {q[i] : i \in DOMAIN q}
DistinctSeqsUpTo(S, n) == {q \in SeqsUpTo(S, n) : Cardinality(Range(q)) = Len(q)}

\* A queue family of a physical device: whether it has the graphics flag
\* (getQueueFamilyProperties), whether it can present to the surface
\* (getSurfaceSupportKHR), and whether the window system lets it present
\* (glfwGetPhysicalDevicePresentationSupport).
QueueFamilies == [graphics : BOOLEAN, surface_support : BOOLEAN, presentation : BOOLEAN]
\* A physical device: its queue families and its device extensions.
PhysicalDevices ==
    [families : SeqsUpTo(QueueFamilies, MaxFamilies),
     extensions : SUBSET Range(REQUIRED_DEVICE_EXTENSIONS)]

\* A GPU with one family that does everything, and one that cannot present.
SuitableDevice ==
    [families |-> <<[graphics |-> TRUE, surface_support |-> TRUE, presentation |-> TRUE]>>,
     extensions |-> Range(REQUIRED_DEVICE_EXTENSIONS)]
ComputeOnlyDevice ==
    [families |-> <<[graphics |-> FALSE, surface_support |-> FALSE, presentation |-> FALSE]>>,
     extensions |-> {}]

\* The machine and the build the program runs in: whether the build is a debug build
\* (NDEBUG not defined, lines 42 and 63), what glfwGetRequiredInstanceExtensions
\* returns, the instance extensions the loader enumerates, and the physical devices
\* in enumeration order.
Environment(validation, required, available, devices) ==
    [enable_validation_layers |-> validation, glfw_extensions |-> required,
     available_extensions |-> available, physical_devices |-> devices]

\* The environments of the frame loop's specification: a machine where everything
\* is there, one without the window system's surface extension, one whose only GPU
\* cannot present.
LoopEnvironments ==
    {Environment(TRUE, <<"VK_KHR_surface", "VK_KHR_xcb_surface">>, InstanceExtensionNames,
                 <<SuitableDevice>>),
     Environment(FALSE, <<"VK_KHR_surface", "VK_KHR_xcb_surface">>, {"VK_KHR_surface"},
                 <<SuitableDevice>>),
     Environment(TRUE, <<"VK_KHR_surface">>, InstanceExtensionNames,
                 <<ComputeOnlyDevice>>)}

\* A GPU whose graphics family cannot present and whose presenting family has no
\* graphics, in a debug build with every extension.
SplitFamiliesDevice ==
    [families |-> <<[graphics |-> TRUE, surface_support |-> FALSE, presentation |-> FALSE],
                    [graphics |-> FALSE, surface_support |-> TRUE, presentation |-> TRUE]>>,
     extensions |-> Range(REQUIRED_DEVICE_EXTENSIONS)]
QueueEnvironments ==
    {Environment(TRUE, <<"VK_KHR_surface", "VK_KHR_xcb_surface">>, InstanceExtensionNames,
                 <<SplitFamiliesDevice>>)}

\* Every build and every set of instance extensions, on a machine with a suitable GPU.
ExtensionEnvironments ==
    {Environment(v, r, a, <<SuitableDevice>>) :
        v \in BOOLEAN, r \in DistinctSeqsUpTo(SurfaceExtensionNames, MaxGlfwExtensions),
        a \in SUBSET InstanceExtensionNames}

\* Every list of physical devices, in a debug build with every extension.
DeviceEnvironments ==
    {Environment(TRUE, <<"VK_KHR_surface">>, InstanceExtensionNames, d) :
        d \in SeqsUpTo(PhysicalDevices, MaxDevices)}

VARIABLES
    pc,                        \* position of the host thread
    swapchain_rebuild_needed,  \* App::swapchain_rebuild_needed
    current_frame,             \* App::current_frame
    window,                    \* App::window: NULL or "window"
    vk_surface,                \* App::vk_surface: NULL or a surface handle
    vk_device,                 \* App::vk_device: NULL or "device"
    vk_surface_info,           \* App::vk_surface_info: an optional SurfaceInfo
    vk_swapchain,              \* App::vk_swapchain: an optional swapchain
    vk_sc_images,              \* App::vk_sc_images
    vk_sc_imageviews,          \* App::vk_sc_imageviews
    vk_sc_framebuffers,        \* App::vk_sc_framebuffers
    vk_cmd_buffers,            \* App::vk_cmd_buffers
    vk_image_available_sema,   \* App::vk_image_available_sema (signaled or not)
    vk_render_finished_sema,   \* App::vk_render_finished_sema (signaled or not)
    vk_fences,                 \* App::vk_fences (signaled or not)
    width, height,             \* locals of rebuildSwapchain
    raii_surface,              \* local of initSurface: NULL or the surface just created
    image_index,               \* local of drawFrame
    live_surfaces,             \* the surfaces of the window that exist
    queue,                     \* operations submitted to the graphics queue, not yet executed
    win_size,                  \* the window's framebuffer size
    resize_pending,            \* a resize event waits in the event queue
    should_close,              \* glfwWindowShouldClose(window)
    env,                       \* the machine and the build: an Environment
    instance_layers,           \* App::instance_layers
    instance_extensions,       \* App::instance_extensions
    vk_instance,               \* App::vk_instance: NULL or "instance"
    debug_messenger,           \* App::debug_messenger: NULL or "messenger"
    vk_physical_device,        \* App::vk_physical_device: an optional index into the devices
    vk_q_families_info,        \* App::vk_q_families_info: an optional QueueFamiliesInfo
    qc_infos,                  \* initDevice's qc_infos: the queue family index of each
                               \* queue create info the device was created with
    vk_vertex_buffer,          \* App::vk_vertex_buffer: NULL or "buffer"
    vk_render_pass,            \* App::vk_render_pass: NULL or "render_pass"
    vk_pipeline,               \* App::vk_pipeline: NULL or "pipeline"
    thrown_from,               \* where the exception in flight was thrown, or "none"
    \* History of the calls, read only by the properties.
    frame_steps,               \* the steps of the current or last drawFrame call
    entry_frame,               \* current_frame when that call began
    acquire_result,            \* what its acquire reported
    acquired,                  \* the image its acquire delivered
    presented,                 \* the image it asked to present
    present_result,            \* what its present reported
    last_draw,                 \* how the last drawFrame call ended, "running" during one
    rebuilds_since_draw,       \* rebuildSwapchain calls finished since the last drawFrame
    polled_resize,             \* glfwPollEvents ran the resize callback since the last drawFrame
    rebuild_steps,             \* the steps of the current or last rebuildSwapchain call
    shader_reads               \* the files loadShaderBytes has read, in order

vars == <<pc, swapchain_rebuild_needed, current_frame, window, vk_surface, vk_device,
          vk_surface_info, vk_swapchain, vk_sc_images, vk_sc_imageviews,
          vk_sc_framebuffers, vk_cmd_buffers, vk_image_available_sema,
          vk_render_finished_sema, vk_fences, width, height, raii_surface,
          image_index, live_surfaces, queue, win_size, resize_pending, should_close,
          frame_steps, entry_frame, acquire_result, acquired, presented,
          present_result, last_draw, rebuilds_since_draw, polled_resize, rebuild_steps,
          env, instance_layers, instance_extensions, vk_instance, debug_messenger,
          vk_physical_device, vk_q_families_info, qc_infos, vk_vertex_buffer, vk_render_pass,
          vk_pipeline, thrown_from, shader_reads>>

\* Groups of variables, for UNCHANGED.
appFlags == <<swapchain_rebuild_needed, current_frame>>
\* What init makes and the frame loop leaves alone.
startupObjs == <<env, instance_layers, instance_extensions, vk_instance, debug_messenger,
                 vk_physical_device, vk_q_families_info, qc_infos, vk_vertex_buffer,
                 vk_render_pass, vk_pipeline, thrown_from, shader_reads>>
initObjs == <<window, vk_device, vk_image_available_sema, vk_render_finished_sema,
              vk_fences, startupObjs>>
surfaceObjs == <<vk_surface, live_surfaces, raii_surface>>
swapchainObjs == <<vk_surface_info, vk_swapchain, vk_sc_images, vk_sc_imageviews,
                   vk_sc_framebuffers>>
rebuildLocals == <<width, height>>
windowSys == <<win_size, resize_pending, should_close>>
drawHistory == <<frame_steps, entry_frame, acquire_result, acquired, presented,
                 present_result, last_draw>>
loopHistory == <<rebuilds_since_draw, polled_resize>>

\* The state of a default-constructed App (src/src/main.cpp:81-115) in one of the
\* given environments.
InitIn(environments) ==
    /\ pc = "init"
    /\ env \in environments
    /\ instance_layers = <<>>
    /\ instance_extensions = <<>>
    /\ vk_instance = NULL
    /\ debug_messenger = NULL
    /\ vk_physical_device = None
    /\ vk_q_families_info = None
    /\ qc_infos = <<>>
    /\ vk_vertex_buffer = NULL
    /\ vk_render_pass = NULL
    /\ vk_pipeline = NULL
    /\ thrown_from = "none"
    /\ shader_reads = <<>>
    /\ swapchain_rebuild_needed = TRUE
    /\ current_frame = 0
    /\ window = NULL
    /\ vk_surface = NULL
    /\ vk_device = NULL
    /\ vk_surface_info = None
    /\ vk_swapchain = None
    /\ vk_sc_images = <<>>
    /\ vk_sc_imageviews = <<>>
    /\ vk_sc_framebuffers = <<>>
    /\ vk_cmd_buffers = <<>>
    /\ vk_image_available_sema = <<>>
    /\ vk_render_finished_sema = <<>>
    /\ vk_fences = <<>>
    /\ width = 0
    /\ height = 0
    /\ raii_surface = NULL
    /\ image_index = NoImage
    /\ live_surfaces = {}
    /\ queue = <<>>
    /\ win_size = ZeroSize
    /\ resize_pending = FALSE
    /\ should_close = FALSE
    /\ frame_steps = <<>>
    /\ entry_frame = 0
    /\ acquire_result = "none"
    /\ acquired = NoImage
    /\ presented = NoImage
    /\ present_result = "none"
    /\ last_draw = "none"
    /\ rebuilds_since_draw = 0
    /\ polled_resize = FALSE
    /\ rebuild_steps = <<>>

Init == InitIn(LoopEnvironments)

\* Where the host thread no longer runs: runLoop returned, an exception reached
\* main's catch, or the process died of undefined behaviour.
Stopped == {"done", "failed", "crashed"}

\* A command buffer as vk::raii::CommandBuffers allocates it (src/src/main.cpp:351-355).
FreshCommandBuffer ==
    [state |-> "initial", framebuffer |-> NoImage, in_render_pass |-> FALSE,
     commands |-> <<>>]

\* The surface capabilities SurfaceInfo::from can read (src/src/utils.hpp:61-63): a
\* least image count, and a greatest one or 0 for no limit.
SurfaceCaps ==
    {c \in [min_image_cnt : {1, MaxImages - 1}, max_image_cnt : 0 .. MaxImages] :
        c.max_image_cnt \in {0, c.min_image_cnt}}

\* createSyncObjects (src/src/main.cpp:615-628): one object per frame slot; the
\* fences are created signaled, the semaphores unsignaled.
createSyncObjects(signaled) == [i \in 1 .. MAX_FRAMES_IN_FLIGHT |-> signaled]

\* The end of the process with the given status.  ~App (src/src/main.cpp:75-78) and
\* the destructors of its members destroy the window and every Vulkan object the App
\* holds, without waiting for the queue: what was submitted and has not executed
\* stays in queue.
Teardown(status) ==
    /\ pc' = status
    /\ window' = NULL
    /\ vk_surface' = NULL
    /\ raii_surface' = NULL
    /\ live_surfaces' = {}
    /\ vk_device' = NULL
    /\ vk_surface_info' = None
    /\ vk_swapchain' = None
    /\ vk_sc_images' = <<>>
    /\ vk_sc_imageviews' = <<>>
    /\ vk_sc_framebuffers' = <<>>
    /\ vk_cmd_buffers' = <<>>
    /\ vk_image_available_sema' = <<>>
    /\ vk_render_finished_sema' = <<>>
    /\ vk_fences' = <<>>
    /\ width' = 0
    /\ height' = 0
    /\ image_index' = NoImage
    /\ win_size' = ZeroSize
    /\ resize_pending' = FALSE
    /\ should_close' = FALSE
    /\ instance_layers' = <<>>
    /\ instance_extensions' = <<>>
    /\ vk_instance' = NULL
    /\ debug_messenger' = NULL
    /\ vk_physical_device' = None
    /\ vk_q_families_info' = None
    /\ qc_infos' = <<>>
    /\ vk_vertex_buffer' = NULL
    /\ vk_render_pass' = NULL
    /\ vk_pipeline' = NULL
    /\ UNCHANGED <<appFlags, queue, drawHistory, loopHistory, rebuild_steps, env,
                   thrown_from, shader_reads>>

\* A call throws (std::runtime_error, vk::SystemError, std::bad_optional_access, ...).
\* Neither init nor runLoop nor anything they call catches it, the two
\* vk::OutOfDateKHRError handlers of drawFrame apart: it propagates to main.
ThrowRecording(extensions) ==
    /\ pc' = "thrown"
    /\ thrown_from' = pc
    /\ instance_extensions' = extensions
    /\ UNCHANGED <<appFlags, window, vk_device, vk_image_available_sema,
                   vk_render_finished_sema, vk_fences, surfaceObjs, swapchainObjs,
                   vk_cmd_buffers, rebuildLocals, image_index, queue, windowSys,
                   drawHistory, loopHistory, rebuild_steps, env, instance_layers,
                   vk_instance, debug_messenger, vk_physical_device,
                   vk_q_families_info, qc_infos, vk_vertex_buffer, vk_render_pass, vk_pipeline,
                   shader_reads>>

Throw == ThrowRecording(instance_extensions)

\* main_Catch with the loop started again in place of the return.
main_Catch_Retry ==
    /\ pc = "thrown"
    /\ pc' = "loop_cond"
    /\ UNCHANGED <<appFlags, initObjs, surfaceObjs, swapchainObjs, vk_cmd_buffers,
                   rebuildLocals, image_index, queue, windowSys, drawHistory,
                   loopHistory, rebuild_steps>>

\* The catch clauses of main (src/src/main.cpp:716-722): both print e.what() and
\* return EXIT_FAILURE, and app is destroyed.
main_Catch ==
    /\ pc = "thrown"
    /\ Teardown("failed")

(***************************************************************************)
(* init (src/src/main.cpp:42-58), one step per call it makes.              *)
(***************************************************************************)

\* What an init step leaves alone besides the members it sets.
loopState == <<appFlags, swapchainObjs, rebuildLocals, image_index, queue,
               resize_pending, should_close, drawHistory, loopHistory, rebuild_steps,
               env, thrown_from>>

\* initGlfw (lines 66-77): throws when glfwVulkanSupported() is GLFW_FALSE.
init_initGlfw ==
    /\ pc = "init"
    /\ \/ /\ pc' = "in_layers"
          /\ UNCHANGED <<loopState, window, win_size, vk_device, vk_cmd_buffers,
                         vk_image_available_sema, vk_render_finished_sema, vk_fences,
                         surfaceObjs, instance_layers, instance_extensions,
                         vk_instance, debug_messenger, vk_physical_device,
                         vk_q_families_info, qc_infos, vk_vertex_buffer, vk_render_pass,
                         vk_pipeline, shader_reads>>
       \/ Throw

\* The layers gatherVkLayers requires (lines 133-139).
RequiredLayers(validation) ==
    IF validation THEN <<VK_LAYER_KHRONOS_validation>> ELSE <<>>

\* gatherVkLayers (lines 130-160): throws when a required layer is not among the
\* layers the loader enumerates (layer_set), and records the required layers.
init_gatherVkLayers ==
    /\ pc = "in_layers"
    /\ \/ /\ \E layer_set \in SUBSET {VK_LAYER_KHRONOS_validation} :
                Range(RequiredLayers(env.enable_validation_layers)) \subseteq layer_set
          /\ instance_layers' = RequiredLayers(env.enable_validation_layers)
          /\ pc' = "in_extensions"
          /\ UNCHANGED <<loopState, window, win_size, vk_device, vk_cmd_buffers,
                         vk_image_available_sema, vk_render_finished_sema, vk_fences,
                         surfaceObjs, instance_extensions,
                         vk_instance, debug_messenger, vk_physical_device,
                         vk_q_families_info, qc_infos, vk_vertex_buffer, vk_render_pass,
                         vk_pipeline, shader_reads>>
       \/ Throw

\* The loop of gatherVkExtensions over the extensions GLFW requires (lines 203-214),
\* from the i-th on: the first one that is not in extension_set ends it with a throw,
\* the others are appended to instance_extensions.
RECURSIVE GatherRequired_SkipsMissing(_, _, _, _)
RECURSIVE GatherRequired(_, _, _, _)
GatherRequired_SkipsMissing(glfw_extensions, extension_set, i, recorded) ==
    IF i > Len(glfw_extensions)
    THEN [threw |-> FALSE, extensions |-> recorded]
    ELSE GatherRequired_SkipsMissing(
             glfw_extensions, extension_set, i + 1,
             IF glfw_extensions[i] \in extension_set
             THEN Append(recorded, glfw_extensions[i]) ELSE recorded)

GatherRequired(glfw_extensions, extension_set, i, recorded) ==
    IF i > Len(glfw_extensions)
    THEN [threw |-> FALSE, extensions |-> recorded]
    ELSE IF glfw_extensions[i] \notin extension_set
         THEN [threw |-> TRUE, extensions |-> recorded]
         ELSE GatherRequired(glfw_extensions, extension_set, i + 1,
                             Append(recorded, glfw_extensions[i]))

\* gatherVkExtensions without its two tests of extension_set.
gatherVkExtensions_Unchecked(glfw_extensions, extension_set, validation, recorded) ==
    [threw |-> FALSE,
     extensions |-> recorded \o glfw_extensions \o
                    (IF validation THEN <<VK_EXT_DEBUG_UTILS_EXTENSION_NAME>> ELSE <<>>)]

\* gatherVkExtensions (lines 188-225): whether it throws, and instance_extensions when
\* it ends.
gatherVkExtensions(glfw_extensions, extension_set, validation, recorded) ==
    LET required == GatherRequired(glfw_extensions, extension_set, 1, recorded) IN
    IF required.threw \/ ~validation
    THEN required
    ELSE IF VK_EXT_DEBUG_UTILS_EXTENSION_NAME \notin extension_set
         THEN [threw |-> TRUE, extensions |-> required.extensions]
         ELSE [threw |-> FALSE,
               extensions |-> Append(required.extensions,
                                     VK_EXT_DEBUG_UTILS_EXTENSION_NAME)]

\* gatherVkExtensions, called at line 45.
init_gatherVkExtensions ==
    /\ pc = "in_extensions"
    /\ LET result == gatherVkExtensions(env.glfw_extensions, env.available_extensions,
                                        env.enable_validation_layers,
                                        instance_extensions) IN
          IF result.threw
          THEN ThrowRecording(result.extensions)
          ELSE /\ instance_extensions' = result.extensions
               /\ pc' = "in_instance"
               /\ UNCHANGED <<loopState, window, win_size, vk_device, vk_cmd_buffers,
                              vk_image_available_sema, vk_render_finished_sema,
                              vk_fences, surfaceObjs, instance_layers,
                              vk_instance, debug_messenger, vk_physical_device,
                              vk_q_families_info, qc_infos, vk_vertex_buffer, vk_render_pass,
                              vk_pipeline, shader_reads>>

\* initInstance (lines 227-239): createInstance with the recorded layers and
\* extensions, or it throws.  initValidation follows in a debug build only (lines
\* 47-49).
init_initInstance ==
    /\ pc = "in_instance"
    /\ \/ /\ vk_instance' = "instance"
          /\ pc' = IF env.enable_validation_layers THEN "in_validation" ELSE "in_window"
          /\ UNCHANGED <<loopState, window, win_size, vk_device, vk_cmd_buffers,
                         vk_image_available_sema, vk_render_finished_sema, vk_fences,
                         surfaceObjs, instance_layers, instance_extensions,
                         debug_messenger, vk_physical_device,
                         vk_q_families_info, qc_infos, vk_vertex_buffer, vk_render_pass,
                         vk_pipeline, shader_reads>>
       \/ Throw

\* initValidation (lines 46-61): vk_instance.value() throws when there is no instance;
\* createDebugUtilsMessengerEXT may throw.
init_initValidation ==
    /\ pc = "in_validation"
    /\ \/ /\ vk_instance # NULL
          /\ debug_messenger' = "messenger"
          /\ pc' = "in_window"
          /\ UNCHANGED <<loopState, window, win_size, vk_device, vk_cmd_buffers,
                         vk_image_available_sema, vk_render_finished_sema, vk_fences,
                         surfaceObjs, instance_layers, instance_extensions,
                         vk_instance, vk_physical_device,
                         vk_q_families_info, qc_infos, vk_vertex_buffer, vk_render_pass,
                         vk_pipeline, shader_reads>>
       \/ Throw

\* window = glfwCreateWindow(800, 600, ...) (lines 243-245): the window, with a
\* framebuffer that is not empty, or NULL when the window cannot be created.  The
\* result is not tested.
init_initWindow_Create ==
    /\ pc = "in_window"
    /\ \/ /\ window' = "window"
          /\ \E s \in Sizes : s.width > 0 /\ s.height > 0 /\ win_size' = s
       \/ /\ window' = NULL
          /\ UNCHANGED win_size
    /\ pc' = "in_window_cb"
    /\ UNCHANGED <<loopState, vk_device, vk_cmd_buffers,
                   vk_image_available_sema, vk_render_finished_sema, vk_fences,
                   surfaceObjs, instance_layers, instance_extensions,
                   vk_instance, debug_messenger, vk_physical_device,
                   vk_q_families_info, qc_infos, vk_vertex_buffer, vk_render_pass,
                   vk_pipeline, shader_reads>>

\* glfwSetWindowUserPointer(window, this) and glfwSetFramebufferSizeCallback (lines
\* 246-247).  GLFW dereferences the window: with a null window the process dies (an
\* assertion of GLFW, or the write through the null pointer).
init_initWindow_SetCallback ==
    /\ pc = "in_window_cb"
    /\ \/ /\ window # NULL
          /\ pc' = "in_is_create"
          /\ UNCHANGED <<loopState, window, win_size, vk_device, vk_cmd_buffers,
                         vk_image_available_sema, vk_render_finished_sema, vk_fences,
                         surfaceObjs, instance_layers, instance_extensions,
                         vk_instance, debug_messenger, vk_physical_device,
                         vk_q_families_info, qc_infos, vk_vertex_buffer, vk_render_pass,
                         vk_pipeline, shader_reads>>
       \/ /\ window = NULL
          /\ Teardown("crashed")

\* initSurface (src/src/main.cpp:257-270), called at lines 51 and 398:
\* vk_instance.value() throws when there is no instance; glfwCreateWindowSurface makes
\* a new surface for the window (the first one is surfaceA), or fails and initSurface
\* throws.  steps is the record of the rebuild's steps after this one.
initSurface_Create(at, next, steps) ==
    /\ pc = at
    /\ \/ /\ vk_instance # NULL
          /\ window # NULL
          /\ \E sid \in SurfaceIds \ live_surfaces :
                /\ live_surfaces = {} => sid = "surfaceA"
                /\ raii_surface' = sid
                /\ live_surfaces' = live_surfaces \cup {sid}
          /\ rebuild_steps' = steps
          /\ pc' = next
          /\ UNCHANGED <<appFlags, initObjs, vk_surface, swapchainObjs, vk_cmd_buffers,
                         rebuildLocals, image_index, queue, windowSys, drawHistory,
                         loopHistory>>
       \/ Throw

\* vk_surface = std::move(raii_surface) (line 269): the surface vk_surface held is
\* destroyed, the new one takes its place.
initSurface_Assign(at, next, steps) ==
    /\ pc = at
    /\ live_surfaces' = live_surfaces \ {vk_surface}
    /\ vk_surface' = raii_surface
    /\ raii_surface' = NULL
    /\ rebuild_steps' = steps
    /\ pc' = next
    /\ UNCHANGED <<appFlags, initObjs, swapchainObjs, vk_cmd_buffers, rebuildLocals,
                   image_index, queue, windowSys, drawHistory, loopHistory>>

\* initSurface, called at line 51.
init_initSurface_Create == initSurface_Create("in_is_create", "in_is_assign", rebuild_steps)

init_initSurface_Assign == initSurface_Assign("in_is_assign", "in_physdev", rebuild_steps)

\* QueueFamiliesInfo::from (src/src/utils.hpp:67-93), its loop from family i on
\* (families are numbered from 0): the last family with the graphics flag and the
\* last one that can present to the surface.
RECURSIVE ScanFamilies(_, _, _, _)
ScanFamilies(families, i, graphics, present) ==
    IF i >= Len(families)
    THEN [graphics |-> graphics, present |-> present]
    ELSE ScanFamilies(families, i + 1,
                      IF families[i + 1].graphics THEN Some(i) ELSE graphics,
                      IF families[i + 1].surface_support THEN Some(i) ELSE present)

QueueFamiliesInfo_from(device) ==
    LET found == ScanFamilies(device.families, 0, None, None) IN
    IF found.graphics = None \/ found.present = None
    THEN None
    ELSE Some([graphics_family_idx |-> value(found.graphics),
               present_family_idx |-> value(found.present)])

\* checkDeviceExtensions (src/src/main.cpp:272-286)
checkDeviceExtensions(phys_dev) ==
    \A i \in DOMAIN REQUIRED_DEVICE_EXTENSIONS :
        REQUIRED_DEVICE_EXTENSIONS[i] \in phys_dev.extensions

\* glfwGetPhysicalDevicePresentationSupport(instance, phys_dev, family) == GLFW_TRUE
glfwGetPhysicalDevicePresentationSupport(phys_dev, family) ==
    phys_dev.families[family + 1].presentation

\* The loop of initPhysicalDevice without its break: a later device that passes the
\* tests replaces an earlier one.
RECURSIVE SelectPhysicalDevice_NoBreak(_, _)
SelectPhysicalDevice_NoBreak(devices, i) ==
    IF i > Len(devices)
    THEN [vk_physical_device |-> None, vk_q_families_info |-> None]
    ELSE LET queues_info == QueueFamiliesInfo_from(devices[i])
             later == SelectPhysicalDevice_NoBreak(devices, i + 1) IN
         IF later.vk_physical_device # None
         THEN later
         ELSE IF queues_info = None \/ ~checkDeviceExtensions(devices[i])
              THEN later
              ELSE IF ~glfwGetPhysicalDevicePresentationSupport(
                          devices[i], value(queues_info).present_family_idx)
                   THEN later
                   ELSE [vk_physical_device |-> Some(i),
                         vk_q_families_info |-> queues_info]

\* The loop of initPhysicalDevice (lines 292-309) from the i-th device of the
\* enumeration on: what it leaves in vk_physical_device (the position of the device in
\* the enumeration, from 1) and in vk_q_families_info.
RECURSIVE SelectPhysicalDevice(_, _)
SelectPhysicalDevice(devices, i) ==
    IF i > Len(devices)
    THEN [vk_physical_device |-> None, vk_q_families_info |-> None]
    ELSE LET queues_info == QueueFamiliesInfo_from(devices[i]) IN
         IF queues_info = None \/ ~checkDeviceExtensions(devices[i])
         THEN SelectPhysicalDevice(devices, i + 1)
         ELSE IF ~glfwGetPhysicalDevicePresentationSupport(
                     devices[i], value(queues_info).present_family_idx)
              THEN SelectPhysicalDevice(devices, i + 1)
              ELSE [vk_physical_device |-> Some(i), vk_q_families_info |-> queues_info]

\* initPhysicalDevice (lines 288-318): vk_instance.value() and vk_surface.value() throw
\* when empty; a device is selected, or the function throws; SurfaceInfo::from
\* (src/src/utils.hpp:36-64) reads the capabilities of the surface, whose current
\* extent is the window's framebuffer size.  Any of the Vulkan calls may throw.
init_initPhysicalDevice ==
    /\ pc = "in_physdev"
    /\ \/ /\ vk_instance # NULL
          /\ vk_surface # NULL
          /\ LET selected == SelectPhysicalDevice(env.physical_devices, 1) IN
                /\ selected.vk_physical_device # None
                /\ vk_physical_device' = selected.vk_physical_device
                /\ vk_q_families_info' = selected.vk_q_families_info
          /\ \E c \in SurfaceCaps :
                vk_surface_info' = Some([extent |-> win_size,
                                         min_image_cnt |-> c.min_image_cnt,
                                         max_image_cnt |-> c.max_image_cnt])
          /\ pc' = "in_device"
          /\ UNCHANGED <<appFlags, vk_swapchain, vk_sc_images, vk_sc_imageviews,
                         vk_sc_framebuffers, rebuildLocals, image_index, queue,
                         windowSys, drawHistory, loopHistory, rebuild_steps, env,
                         thrown_from, window, vk_device, vk_cmd_buffers,
                         vk_image_available_sema, vk_render_finished_sema, vk_fences,
                         surfaceObjs, instance_layers, instance_extensions,
                         vk_instance, debug_messenger, qc_infos, vk_vertex_buffer,
                         vk_render_pass, vk_pipeline, shader_reads>>
       \/ Throw

\* The loop of initDevice that fills qc_infos (lines 328-334): one queue create info
\* for the graphics family index, then one for the present family index.
QueueCreateInfos(queues_info) ==
    <<queues_info.graphics_family_idx, queues_info.present_family_idx>>

\* initDevice (lines 320-356): the device, its queues, the command pool and
\* MAX_FRAMES_IN_FLIGHT command buffers; .value() of an empty optional and the
\* Vulkan calls throw.
init_initDevice ==
    /\ pc = "in_device"
    /\ \/ /\ vk_instance # NULL
          /\ vk_physical_device # None
          /\ vk_q_families_info # None
          /\ qc_infos' = QueueCreateInfos(value(vk_q_families_info))
          /\ vk_device' = "device"
          /\ vk_cmd_buffers' = [i \in 1 .. MAX_FRAMES_IN_FLIGHT |-> FreshCommandBuffer]
          /\ pc' = "in_vertexbuf"
          /\ UNCHANGED <<loopState, window, win_size,
                         vk_image_available_sema, vk_render_finished_sema, vk_fences,
                         surfaceObjs, instance_layers, instance_extensions,
                         vk_instance, debug_messenger, vk_physical_device,
                         vk_q_families_info, vk_vertex_buffer, vk_render_pass,
                         vk_pipeline, shader_reads>>
       \/ Throw

\* initVertexBuffer (lines 358-382): findMemoryType and the Vulkan calls may throw.
init_initVertexBuffer ==
    /\ pc = "in_vertexbuf"
    /\ \/ /\ vk_physical_device # None
          /\ vk_device # NULL
          /\ vk_vertex_buffer' = "buffer"
          /\ pc' = "in_sync"
          /\ UNCHANGED <<loopState, window, win_size, vk_device, vk_cmd_buffers,
                         vk_image_available_sema, vk_render_finished_sema, vk_fences,
                         surfaceObjs, instance_layers, instance_extensions,
                         vk_instance, debug_messenger, vk_physical_device,
                         vk_q_families_info, qc_infos, vk_render_pass,
                         vk_pipeline, shader_reads>>
       \/ Throw

\* createSyncObjects, called at line 55.
init_createSyncObjects ==
    /\ pc = "in_sync"
    /\ \/ /\ vk_device # NULL
          /\ vk_fences' = createSyncObjects(TRUE)
          /\ vk_image_available_sema' = createSyncObjects(FALSE)
          /\ vk_render_finished_sema' = createSyncObjects(FALSE)
          /\ pc' = "in_renderpass"
          /\ UNCHANGED <<loopState, window, win_size, vk_device, vk_cmd_buffers,
                         surfaceObjs, instance_layers, instance_extensions,
                         vk_instance, debug_messenger, vk_physical_device,
                         vk_q_families_info, qc_infos, vk_vertex_buffer, vk_render_pass,
                         vk_pipeline, shader_reads>>
       \/ Throw

\* createRenderPass (lines 484-506)
init_createRenderPass ==
    /\ pc = "in_renderpass"
    /\ \/ /\ vk_device # NULL
          /\ vk_surface_info # None
          /\ vk_render_pass' = "render_pass"
          /\ pc' = "in_pipeline"
          /\ UNCHANGED <<loopState, window, win_size, vk_device, vk_cmd_buffers,
                         vk_image_available_sema, vk_render_finished_sema, vk_fences,
                         surfaceObjs, instance_layers, instance_extensions,
                         vk_instance, debug_messenger, vk_physical_device,
                         vk_q_families_info, qc_infos, vk_vertex_buffer,
                         vk_pipeline, shader_reads>>
       \/ Throw

\* The shader files createPipeline loads (lines 512-513), in order.
ShaderPaths == <<"shaders/vert.spv", "shaders/lab.spv">>

\* createPipeline (lines 508-592) with loadShaderBytes (src/src/utils.hpp:153-165):
\* each file is opened and read once.  When the first n - 1 files are read and the
\* n-th cannot be opened, tellg() is -1: in a debug build the assert of line 158
\* ends the process, in a release build the vector of that size throws.  With both
\* files read the pipeline is created, or a Vulkan call throws.
init_createPipeline ==
    /\ pc = "in_pipeline"
    /\ \/ /\ vk_device # NULL
          /\ vk_render_pass # NULL
          /\ shader_reads' = shader_reads \o ShaderPaths
          /\ vk_pipeline' = "pipeline"
          /\ pc' = "loop_cond"
          /\ UNCHANGED <<appFlags, swapchainObjs, rebuildLocals, image_index, queue,
                         windowSys, drawHistory, loopHistory, rebuild_steps, env,
                         thrown_from, window, vk_device, vk_cmd_buffers,
                         vk_image_available_sema, vk_render_finished_sema, vk_fences,
                         surfaceObjs, instance_layers, instance_extensions,
                         vk_instance, debug_messenger, vk_physical_device,
                         vk_q_families_info, qc_infos, vk_vertex_buffer, vk_render_pass>>
       \/ /\ env.enable_validation_layers
          /\ Teardown("crashed")
       \/ Throw

(***************************************************************************)
(* The window system.                                                      *)
(***************************************************************************)

\* The user resizes, minimizes or restores the window at any time.  The program sees
\* the window only when it reads the framebuffer size and when it processes events, so
\* the changes since it last looked are taken at those moments: the size is now
\* new_size, and a resize event waits if the size changed (or changed and came back:
\* came_back).
WindowResized(new_size, came_back) ==
    /\ win_size' = new_size
    /\ resize_pending' = (resize_pending \/ came_back \/ new_size # win_size)

\* framebufferResizeCallback without its assignment.
framebufferResizeCallback_NoAssignment == swapchain_rebuild_needed

\* framebufferResizeCallback (src/src/main.cpp:250-254): the new value of
\* swapchain_rebuild_needed.
framebufferResizeCallback == TRUE

\* What glfwPollEvents and glfwWaitEvents do with the events that have arrived: the
\* resize callback runs if a resize event waits, and a close request (close_requested)
\* sets the window's close flag.
ProcessEvents(new_size, came_back, close_requested) ==
    /\ win_size' = new_size
    /\ swapchain_rebuild_needed' =
          IF resize_pending \/ came_back \/ new_size # win_size
          THEN framebufferResizeCallback
          ELSE swapchain_rebuild_needed
    /\ resize_pending' = FALSE
    /\ should_close' = (should_close \/ close_requested)

(***************************************************************************)
(* runLoop (src/src/main.cpp:61-73).                                       *)
(***************************************************************************)

\* while (!glfwWindowShouldClose(window))
runLoop_Cond ==
    /\ pc = "loop_cond"
    /\ pc' = IF should_close THEN "exit_waitIdle" ELSE "poll"
    /\ frame_steps' = <<>>
    /\ entry_frame' = 0
    /\ acquire_result' = "none"
    /\ acquired' = NoImage
    /\ presented' = NoImage
    /\ present_result' = "none"
    /\ UNCHANGED <<appFlags, initObjs, surfaceObjs, swapchainObjs, vk_cmd_buffers,
                   rebuildLocals, image_index, queue, windowSys, last_draw,
                   loopHistory, rebuild_steps>>

\* glfwPollEvents()
runLoop_PollEvents ==
    /\ pc = "poll"
    /\ \E new_size \in Sizes, came_back, close_requested \in BOOLEAN :
          /\ ProcessEvents(new_size, came_back, close_requested)
          /\ polled_resize' = (resize_pending \/ came_back \/ new_size # win_size)
    /\ pc' = "check_rebuild"
    /\ UNCHANGED <<current_frame, initObjs, surfaceObjs, swapchainObjs, vk_cmd_buffers,
                   rebuildLocals, image_index, queue, drawHistory,
                   rebuilds_since_draw, rebuild_steps>>

\* if (swapchain_rebuild_needed) rebuildSwapchain(); drawFrame();
runLoop_CheckRebuild ==
    /\ pc = "check_rebuild"
    /\ pc' = IF swapchain_rebuild_needed THEN "rb_waitIdle1" ELSE "df_acquire"
    /\ rebuild_steps' = <<>>
    /\ UNCHANGED <<appFlags, initObjs, surfaceObjs, swapchainObjs, vk_cmd_buffers,
                   rebuildLocals, image_index, queue, windowSys, drawHistory,
                   loopHistory>>

\* vk_device.value().waitIdle() after the loop (line 72): returns when the queue has
\* drained, and main returns EXIT_SUCCESS; or throws (device lost).
runLoop_WaitIdle ==
    /\ pc = "exit_waitIdle"
    /\ \/ queue = <<>> /\ Teardown("done")
       \/ Throw

(***************************************************************************)
(* rebuildSwapchain (src/src/main.cpp:384-410) and what it calls.          *)
(***************************************************************************)

\* device.waitIdle(): returns when every queue of the device has drained, or throws
\* (device lost).
deviceWaitIdle(at, next) ==
    /\ pc = at
    /\ \/ /\ queue = <<>>
          /\ pc' = next
          /\ rebuild_steps' = Append(rebuild_steps, "waitIdle")
          /\ UNCHANGED <<appFlags, initObjs, surfaceObjs, swapchainObjs, vk_cmd_buffers,
                         rebuildLocals, image_index, queue, windowSys, drawHistory,
                         loopHistory>>
       \/ Throw

\* rebuildSwapchain_WaitIdle1 without the wait: destroySwapchain is called at once.
rebuildSwapchain_WaitIdle1_NoWait ==
    /\ pc = "rb_waitIdle1"
    /\ pc' = "ds_framebuffers"
    /\ UNCHANGED <<appFlags, initObjs, surfaceObjs, swapchainObjs, vk_cmd_buffers,
                   rebuildLocals, image_index, queue, windowSys, drawHistory,
                   loopHistory, rebuild_steps>>

\* device.waitIdle() (line 387)
rebuildSwapchain_WaitIdle1 == deviceWaitIdle("rb_waitIdle1", "ds_framebuffers")

\* destroySwapchain_Framebuffers with the image views cleared in place of the
\* framebuffers.
destroySwapchain_Framebuffers_ViewsFirst ==
    /\ pc = "ds_framebuffers"
    /\ vk_sc_imageviews' = <<>>
    /\ rebuild_steps' = Append(rebuild_steps, "destroyImageViews")
    /\ pc' = "ds_imageviews"
    /\ UNCHANGED <<appFlags, initObjs, surfaceObjs, vk_surface_info, vk_swapchain,
                   vk_sc_images, vk_sc_framebuffers, vk_cmd_buffers, rebuildLocals,
                   image_index, queue, windowSys, drawHistory, loopHistory>>

\* destroySwapchain (src/src/main.cpp:456-461), statement by statement.
\* A command buffer recorded against a framebuffer becomes invalid when the
\* framebuffer is destroyed.
destroySwapchain_Framebuffers ==
    /\ pc = "ds_framebuffers"
    /\ vk_sc_framebuffers' = <<>>
    /\ vk_cmd_buffers' =
          [i \in DOMAIN vk_cmd_buffers |->
              IF vk_cmd_buffers[i].state = "initial"
              THEN vk_cmd_buffers[i]
              ELSE [FreshCommandBuffer EXCEPT !.state = "invalid"]]
    /\ rebuild_steps' = Append(rebuild_steps, "destroyFramebuffers")
    /\ pc' = "ds_imageviews"
    /\ UNCHANGED <<appFlags, initObjs, surfaceObjs, vk_surface_info, vk_swapchain,
                   vk_sc_images, vk_sc_imageviews, rebuildLocals,
                   image_index, queue, windowSys, drawHistory, loopHistory>>

destroySwapchain_ImageViews ==
    /\ pc = "ds_imageviews"
    /\ vk_sc_imageviews' = <<>>
    /\ rebuild_steps' = Append(rebuild_steps, "destroyImageViews")
    /\ pc' = "ds_images"
    /\ UNCHANGED <<appFlags, initObjs, surfaceObjs, vk_surface_info, vk_swapchain,
                   vk_sc_images, vk_sc_framebuffers, vk_cmd_buffers, rebuildLocals,
                   image_index, queue, windowSys, drawHistory, loopHistory>>

destroySwapchain_Images ==
    /\ pc = "ds_images"
    /\ vk_sc_images' = <<>>
    /\ pc' = "ds_swapchain"
    /\ UNCHANGED <<appFlags, initObjs, surfaceObjs, vk_surface_info, vk_swapchain,
                   vk_sc_imageviews, vk_sc_framebuffers, vk_cmd_buffers, rebuildLocals,
                   image_index, queue, windowSys, drawHistory, loopHistory,
                   rebuild_steps>>

destroySwapchain_Swapchain ==
    /\ pc = "ds_swapchain"
    /\ vk_swapchain' = None
    /\ rebuild_steps' = Append(rebuild_steps, "destroySwapchain")
    /\ pc' = "rb_getSize"
    /\ UNCHANGED <<appFlags, initObjs, surfaceObjs, vk_surface_info, vk_sc_images,
                   vk_sc_imageviews, vk_sc_framebuffers, vk_cmd_buffers, rebuildLocals,
                   image_index, queue, windowSys, drawHistory, loopHistory>>

\* int width = 0, height = 0; glfwGetFramebufferSize(window, &width, &height);
\* (lines 390-391)
rebuildSwapchain_GetSize ==
    /\ pc = "rb_getSize"
    /\ \E new_size \in Sizes, came_back \in BOOLEAN : WindowResized(new_size, came_back)
    /\ width' = win_size'.width
    /\ height' = win_size'.height
    /\ pc' = "rb_sizeLoop"
    /\ UNCHANGED <<appFlags, initObjs, surfaceObjs, swapchainObjs, vk_cmd_buffers,
                   image_index, queue, should_close, drawHistory, loopHistory,
                   rebuild_steps>>

\* The loop test of a rebuildSwapchain that goes on with whatever size it read first.
rebuildSwapchain_SizeLoop_NoLoop ==
    /\ pc = "rb_sizeLoop"
    /\ pc' = "rb_waitIdle2"
    /\ UNCHANGED <<appFlags, initObjs, surfaceObjs, swapchainObjs, vk_cmd_buffers,
                   rebuildLocals, image_index, queue, windowSys, drawHistory,
                   loopHistory, rebuild_steps>>

\* while (width == 0 || height == 0) (line 392)
rebuildSwapchain_SizeLoop ==
    /\ pc = "rb_sizeLoop"
    /\ pc' = IF width = 0 \/ height = 0 THEN "rb_getSizeAgain" ELSE "rb_waitIdle2"
    /\ UNCHANGED <<appFlags, initObjs, surfaceObjs, swapchainObjs, vk_cmd_buffers,
                   rebuildLocals, image_index, queue, windowSys, drawHistory,
                   loopHistory, rebuild_steps>>

\* glfwGetFramebufferSize(window, &width, &height) inside the loop (line 393)
rebuildSwapchain_GetSizeAgain ==
    /\ pc = "rb_getSizeAgain"
    /\ \E new_size \in Sizes, came_back \in BOOLEAN : WindowResized(new_size, came_back)
    /\ width' = win_size'.width
    /\ height' = win_size'.height
    /\ pc' = "rb_waitEvents"
    /\ UNCHANGED <<appFlags, initObjs, surfaceObjs, swapchainObjs, vk_cmd_buffers,
                   image_index, queue, should_close, drawHistory, loopHistory,
                   rebuild_steps>>

\* glfwWaitEvents() (line 394): sleeps until an event has arrived (any event: a
\* resize, a close request, or one the program has no handler for), then
\* processes the waiting events.
rebuildSwapchain_WaitEvents ==
    /\ pc = "rb_waitEvents"
    /\ \E new_size \in Sizes, came_back, close_requested \in BOOLEAN :
          ProcessEvents(new_size, came_back, close_requested)
    /\ pc' = "rb_sizeLoop"
    /\ UNCHANGED <<current_frame, initObjs, surfaceObjs, swapchainObjs, vk_cmd_buffers,
                   rebuildLocals, image_index, queue, drawHistory,
                   loopHistory, rebuild_steps>>

\* device.waitIdle() (line 397)
rebuildSwapchain_WaitIdle2 == deviceWaitIdle("rb_waitIdle2", "is_create")

\* initSurface, called at line 398.
rebuildSwapchain_initSurface_Create ==
    initSurface_Create("is_create", "is_assign", Append(rebuild_steps, "createSurface"))

rebuildSwapchain_initSurface_Assign ==
    initSurface_Assign("is_assign", "rb_setExtent",
                       Append(rebuild_steps, "replaceSurface"))

\* vk_surface_info.value().extent.width = width; ...height = height; (lines 400-401)
rebuildSwapchain_SetExtent ==
    /\ pc = "rb_setExtent"
    /\ vk_surface_info' =
          Some([value(vk_surface_info) EXCEPT
                   !.extent = [width |-> width, height |-> height]])
    /\ pc' = "rb_waitIdle3"
    /\ UNCHANGED <<appFlags, initObjs, surfaceObjs, vk_swapchain, vk_sc_images,
                   vk_sc_imageviews, vk_sc_framebuffers, vk_cmd_buffers, rebuildLocals,
                   image_index, queue, windowSys, drawHistory, loopHistory,
                   rebuild_steps>>

\* device.waitIdle() (line 403)
rebuildSwapchain_WaitIdle3 == deviceWaitIdle("rb_waitIdle3", "rb_createSwapchain")

\* The image count createSwapchain asks for (src/src/main.cpp:427-430).
ImgCnt(surface_info) ==
    IF surface_info.max_image_cnt # 0 /\ surface_info.max_image_cnt < surface_info.min_image_cnt + 1
    THEN surface_info.max_image_cnt
    ELSE surface_info.min_image_cnt + 1

\* The image counts the driver may give a swapchain asked to hold img_cnt images: at
\* least that many, and no more than the surface allows.
GrantedImageCounts(surface_info) ==
    {n \in ImgCnt(surface_info) .. MaxImages :
        surface_info.max_image_cnt = 0 \/ n <= surface_info.max_image_cnt}

\* createSwapchain (src/src/main.cpp:412-454): clears the framebuffers and the image
\* views, creates the swapchain on vk_surface with the extent of vk_surface_info and
\* fetches its images; createSwapchainKHR may throw.
createSwapchain ==
    /\ pc = "rb_createSwapchain"
    /\ \/ /\ \E n \in GrantedImageCounts(value(vk_surface_info)) :
                /\ vk_swapchain' = Some([surface |-> vk_surface,
                                         extent |-> value(vk_surface_info).extent,
                                         n_images |-> n])
                /\ vk_sc_images' = [i \in 1 .. n |-> i - 1]
          /\ vk_sc_framebuffers' = <<>>
          /\ vk_sc_imageviews' = <<>>
          /\ rebuild_steps' = Append(rebuild_steps, "createSwapchain")
          /\ pc' = "rb_createImageViews"
          /\ UNCHANGED <<appFlags, initObjs, surfaceObjs, vk_surface_info,
                         vk_cmd_buffers, rebuildLocals, image_index, queue, windowSys,
                         drawHistory, loopHistory>>
       \/ Throw

\* createImageViews (src/src/main.cpp:463-482): one view per element of vk_sc_images.
createImageViews ==
    /\ pc = "rb_createImageViews"
    /\ vk_sc_imageviews' = [i \in 1 .. Len(vk_sc_images) |-> [image |-> vk_sc_images[i]]]
    /\ rebuild_steps' = Append(rebuild_steps, "createImageViews")
    /\ pc' = "rb_createFrameBuffers"
    /\ UNCHANGED <<appFlags, initObjs, surfaceObjs, vk_surface_info, vk_swapchain,
                   vk_sc_images, vk_sc_framebuffers, vk_cmd_buffers, rebuildLocals,
                   image_index, queue, windowSys, drawHistory, loopHistory>>

\* createFrameBuffers followed by a createPipeline, which reads the two shaders again.
createFrameBuffers_RecreatesPipeline ==
    /\ pc = "rb_createFrameBuffers"
    /\ vk_sc_framebuffers' =
          [i \in 1 .. Len(vk_sc_imageviews) |->
              [attachment |-> vk_sc_imageviews[i].image,
               extent |-> value(vk_surface_info).extent]]
    /\ shader_reads' = shader_reads \o ShaderPaths
    /\ rebuild_steps' = Append(rebuild_steps, "createFrameBuffers")
    /\ pc' = "rb_clearFlag"
    /\ UNCHANGED <<appFlags, window, vk_device, vk_image_available_sema,
                   vk_render_finished_sema, vk_fences, env, instance_layers,
                   instance_extensions, vk_instance, debug_messenger,
                   vk_physical_device, vk_q_families_info, qc_infos, vk_vertex_buffer,
                   vk_render_pass, vk_pipeline, thrown_from, surfaceObjs,
                   vk_surface_info, vk_swapchain, vk_sc_images, vk_sc_imageviews,
                   vk_cmd_buffers, rebuildLocals, image_index, queue, windowSys,
                   drawHistory, loopHistory>>

\* createFrameBuffers (src/src/main.cpp:594-613): one framebuffer per element of
\* vk_sc_imageviews, of the extent of vk_surface_info.
createFrameBuffers ==
    /\ pc = "rb_createFrameBuffers"
    /\ vk_sc_framebuffers' =
          [i \in 1 .. Len(vk_sc_imageviews) |->
              [attachment |-> vk_sc_imageviews[i].image,
               extent |-> value(vk_surface_info).extent]]
    /\ rebuild_steps' = Append(rebuild_steps, "createFrameBuffers")
    /\ pc' = "rb_clearFlag"
    /\ UNCHANGED <<appFlags, initObjs, surfaceObjs, vk_surface_info, vk_swapchain,
                   vk_sc_images, vk_sc_imageviews, vk_cmd_buffers, rebuildLocals,
                   image_index, queue, windowSys, drawHistory, loopHistory>>

\* swapchain_rebuild_needed = false (line 409); rebuildSwapchain returns and runLoop
\* calls drawFrame.
rebuildSwapchain_ClearFlag ==
    /\ pc = "rb_clearFlag"
    /\ swapchain_rebuild_needed' = FALSE
    /\ width' = 0
    /\ height' = 0
    /\ rebuilds_since_draw' = rebuilds_since_draw + 1
    /\ rebuild_steps' = <<>>
    /\ pc' = "df_acquire"
    /\ UNCHANGED <<current_frame, initObjs, surfaceObjs, swapchainObjs, vk_cmd_buffers,
                   image_index, queue, windowSys, drawHistory, polled_resize>>

(***************************************************************************)
(* drawFrame (src/src/main.cpp:661-707) and overwriteCommandBuffer.        *)
(***************************************************************************)

\* Element i of a std::vector held as a sequence.
At(vec, i) == vec[i + 1]

\* vec with element i set to v.
Put(vec, i, v) == [vec EXCEPT ![i + 1] = v]

\* (current_frame + 1) % MAX_FRAMES_IN_FLIGHT (line 706)
\* NextFrame without the wrap at MAX_FRAMES_IN_FLIGHT.
NextFrame_NoWrap(frame) == frame + 1

NextFrame(frame) == (frame + 1) % MAX_FRAMES_IN_FLIGHT

\* What every call of drawFrame begins with, for the properties: the history of the
\* call starts over.
BeginFrame ==
    /\ frame_steps' = <<"acquire">>
    /\ entry_frame' = current_frame
    /\ presented' = NoImage
    /\ present_result' = "none"
    /\ rebuilds_since_draw' = 0
    /\ polled_resize' = FALSE

\* drawFrame_AcquireOutOfDate with the frame index advanced before the return.
drawFrame_AcquireOutOfDate_Advances ==
    /\ swapchain_rebuild_needed' = TRUE
    /\ acquire_result' = "out_of_date"
    /\ acquired' = NoImage
    /\ last_draw' = "acquire_stale"
    /\ pc' = "loop_cond"
    /\ current_frame' = NextFrame(current_frame)
    /\ UNCHANGED <<image_index, initObjs, vk_cmd_buffers, queue>>

\* The catch of vk::OutOfDateKHRError around the acquire (lines 680-683): set the
\* flag and return; runLoop goes on to its next iteration.
drawFrame_AcquireOutOfDate ==
    /\ swapchain_rebuild_needed' = TRUE
    /\ acquire_result' = "out_of_date"
    /\ acquired' = NoImage
    /\ last_draw' = "acquire_stale"
    /\ pc' = "loop_cond"
    /\ UNCHANGED <<current_frame, image_index, initObjs, vk_cmd_buffers, queue>>

\* The references taken at lines 662-671 and device.acquireNextImage2KHR with a
\* timeout of UINT32_MAX nanoseconds (lines 673-683).  The call delivers an image and
\* signals the slot's image-available semaphore (success or suboptimal, which the
\* code does not tell apart); or gives up without an image (timeout: no semaphore
\* signal, and the index it returns is whatever the call left there); or reports
\* out-of-date; or throws another error.  vk_swapchain.value() throws when there is
\* no swapchain.
drawFrame_Acquire ==
    /\ pc = "df_acquire"
    /\ \/ /\ vk_swapchain # None
          /\ BeginFrame
          /\ \E i \in 0 .. (value(vk_swapchain).n_images - 1) :
                /\ image_index' = i
                /\ acquired' = i
          /\ acquire_result' = "success"
          /\ vk_image_available_sema' = Put(vk_image_available_sema, current_frame, TRUE)
          /\ last_draw' = "running"
          /\ pc' = "df_record"
          /\ UNCHANGED <<appFlags, window, vk_device, vk_render_finished_sema, vk_fences,
                         startupObjs,
                         vk_cmd_buffers, queue, surfaceObjs, swapchainObjs,
                         rebuildLocals, windowSys, rebuild_steps>>
       \/ /\ vk_swapchain # None
          /\ BeginFrame
          /\ \E i \in 0 .. MaxImages : image_index' = i
          /\ acquired' = NoImage
          /\ acquire_result' = "timeout"
          /\ last_draw' = "running"
          /\ pc' = "df_record"
          /\ UNCHANGED <<appFlags, initObjs, vk_cmd_buffers, queue, surfaceObjs,
                         swapchainObjs, rebuildLocals, windowSys, rebuild_steps>>
       \/ /\ vk_swapchain # None
          /\ BeginFrame
          /\ drawFrame_AcquireOutOfDate
          /\ UNCHANGED <<surfaceObjs, swapchainObjs, rebuildLocals, windowSys,
                         rebuild_steps>>
       \/ Throw

\* The calls overwriteCommandBuffer makes on the command buffer (lines 644-658), in
\* their order.
RecordedCommands ==
    <<"reset", "begin", "beginRenderPass", "bindPipeline", "setViewport", "setScissor",
      "bindVertexBuffers", "draw", "endRenderPass", "end">>

\* What one call does to a command buffer (the command buffer lifecycle of Vulkan):
\* reset empties it; begin starts the recording of an initial buffer; beginRenderPass
\* opens a render pass instance on the framebuffer fbuf; the state-setting commands
\* need a buffer that is recording, draw one that is inside a render pass;
\* endRenderPass closes the instance; end makes a buffer recording outside a render
\* pass executable.  A call made in another state leaves the buffer invalid.
RecordCommand(buf, cmd, fbuf) ==
    LET logged == [buf EXCEPT !.commands = Append(buf.commands, cmd)]
        invalid == [logged EXCEPT !.state = "invalid"] IN
    CASE cmd = "reset" -> FreshCommandBuffer
      [] cmd = "begin" ->
            IF buf.state = "initial" THEN [logged EXCEPT !.state = "recording"]
            ELSE invalid
      [] cmd = "beginRenderPass" ->
            IF buf.state = "recording" /\ ~buf.in_render_pass
            THEN [logged EXCEPT !.in_render_pass = TRUE, !.framebuffer = fbuf]
            ELSE invalid
      [] cmd \in {"bindPipeline", "setViewport", "setScissor", "bindVertexBuffers"} ->
            IF buf.state = "recording" THEN logged ELSE invalid
      [] cmd = "draw" ->
            IF buf.state = "recording" /\ buf.in_render_pass THEN logged ELSE invalid
      [] cmd = "endRenderPass" ->
            IF buf.state = "recording" /\ buf.in_render_pass
            THEN [logged EXCEPT !.in_render_pass = FALSE]
            ELSE invalid
      [] cmd = "end" ->
            IF buf.state = "recording" /\ ~buf.in_render_pass
            THEN [logged EXCEPT !.state = "executable"]
            ELSE invalid

\* The buffer after the calls cmds[i], cmds[i + 1], ... in order.
RECURSIVE RecordCommands(_, _, _, _)
RecordCommands(buf, cmds, i, fbuf) ==
    IF i > Len(cmds) THEN buf
    ELSE RecordCommands(RecordCommand(buf, cmds[i], fbuf), cmds, i + 1, fbuf)

\* overwriteCommandBuffer(current_frame, image_index) (src/src/main.cpp:630-659),
\* called at line 685: the slot's command buffer is reset and recorded against
\* vk_sc_framebuffers[image_index].  An index past the end of the vector is undefined
\* behaviour: the process dies, or goes on with whatever lies there.  Resetting,
\* beginning or ending the command buffer may throw.
overwriteCommandBuffer(buffer_idx, frame_idx) ==
    \/ /\ \/ /\ frame_idx < Len(vk_sc_framebuffers)
             /\ vk_cmd_buffers' =
                   Put(vk_cmd_buffers, buffer_idx,
                       RecordCommands(At(vk_cmd_buffers, buffer_idx), RecordedCommands, 1,
                                      At(vk_sc_framebuffers, frame_idx).attachment))
          \/ /\ frame_idx >= Len(vk_sc_framebuffers)
             /\ vk_cmd_buffers' =
                   Put(vk_cmd_buffers, buffer_idx,
                       RecordCommands(At(vk_cmd_buffers, buffer_idx), RecordedCommands, 1,
                                      Garbage))
       /\ frame_steps' = Append(frame_steps, "record")
       /\ pc' = "df_submit"
       /\ UNCHANGED <<appFlags, initObjs, surfaceObjs, swapchainObjs, rebuildLocals,
                      image_index, queue, windowSys, entry_frame, acquire_result,
                      acquired, presented, present_result, last_draw, loopHistory,
                      rebuild_steps>>
    \/ /\ frame_idx >= Len(vk_sc_framebuffers)
       /\ Teardown("crashed")
    \/ Throw

\* overwriteCommandBuffer(current_frame, image_index) (line 685)
drawFrame_Record ==
    /\ pc = "df_record"
    /\ overwriteCommandBuffer(current_frame, image_index)

\* The queues initDevice gets from the device (lines 343-344): queue 0 of the graphics
\* family and queue 0 of the present family.  drawFrame takes vk_graphics_queue as its
\* queue (line 668) for the submit, the present and the wait.
vk_graphics_queue == [family |-> value(vk_q_families_info).graphics_family_idx]
vk_present_queue == [family |-> value(vk_q_families_info).present_family_idx]

\* The submission built at lines 687-690: it waits on the slot's image-available
\* semaphore, runs the slot's command buffer, signals the slot's render-finished
\* semaphore; queue.submit(submit_info) at line 692 passes no fence.
SubmitInfo(frame) ==
    [kind |-> "submit", slot |-> frame, image |-> At(vk_cmd_buffers, frame).framebuffer,
     fence |-> NoFence, family |-> vk_graphics_queue.family]

\* queue.submit(submit_info) (line 692), or it throws (device lost).
drawFrame_Submit ==
    /\ pc = "df_submit"
    /\ \/ /\ queue' = Append(queue, SubmitInfo(current_frame))
          /\ frame_steps' = Append(frame_steps, "submit")
          /\ pc' = "df_present"
          /\ UNCHANGED <<appFlags, initObjs, surfaceObjs, swapchainObjs, vk_cmd_buffers,
                         rebuildLocals, image_index, windowSys, entry_frame,
                         acquire_result, acquired, presented, present_result, last_draw,
                         loopHistory, rebuild_steps>>
       \/ Throw

\* PresentInfo with the image index left at 0 instead of image_index.
PresentInfo_FirstImage(frame, image) ==
    [kind |-> "present", slot |-> frame, image |-> 0, fence |-> NoFence,
     family |-> vk_graphics_queue.family]

\* The present request built at line 694: it waits on the slot's render-finished
\* semaphore and presents image_index; queue.presentKHR(present_info) at line 697
\* issues it on queue, which is vk_graphics_queue (line 668).
PresentInfo(frame, image) ==
    [kind |-> "present", slot |-> frame, image |-> image, fence |-> NoFence,
     family |-> vk_graphics_queue.family]

\* PresentNeedsRebuild without the test of the result for eSuboptimalKHR.
PresentNeedsRebuild_OutOfDateOnly(result) == result = "out_of_date"

\* Whether lines 696-702 set swapchain_rebuild_needed for what presentKHR reported:
\* eSuboptimalKHR as a result, or a caught vk::OutOfDateKHRError.
PresentNeedsRebuild(result) == result \in {"suboptimal", "out_of_date"}

\* queue.presentKHR(present_info) (lines 696-702): success; suboptimal or out-of-date,
\* which set the flag; or another error, which is thrown.  The request is queued, and
\* its semaphore wait executes, also when out-of-date is reported.
drawFrame_Present ==
    /\ pc = "df_present"
    /\ \/ /\ queue' = Append(queue, PresentInfo(current_frame, image_index))
          /\ presented' = PresentInfo(current_frame, image_index).image
          /\ frame_steps' = Append(frame_steps, "present")
          /\ \E r \in {"success", "suboptimal", "out_of_date"} :
                /\ present_result' = r
                /\ swapchain_rebuild_needed' =
                      IF PresentNeedsRebuild(r) THEN TRUE ELSE swapchain_rebuild_needed
          /\ pc' = "df_waitIdle"
          /\ UNCHANGED <<current_frame, initObjs, surfaceObjs, swapchainObjs,
                         vk_cmd_buffers, rebuildLocals, image_index, windowSys,
                         entry_frame, acquire_result, acquired, last_draw, loopHistory,
                         rebuild_steps>>
       \/ Throw

\* drawFrame_WaitIdle without the wait.
drawFrame_WaitIdle_NoWait ==
    /\ pc = "df_waitIdle"
    /\ pc' = "df_advance"
    /\ UNCHANGED <<appFlags, initObjs, surfaceObjs, swapchainObjs, vk_cmd_buffers,
                   rebuildLocals, image_index, queue, windowSys, drawHistory,
                   loopHistory, rebuild_steps>>

\* queue.waitIdle() (line 704): returns when the queue has drained, or throws.
drawFrame_WaitIdle ==
    /\ pc = "df_waitIdle"
    /\ \/ /\ queue = <<>>
          /\ pc' = "df_advance"
          /\ UNCHANGED <<appFlags, initObjs, surfaceObjs, swapchainObjs, vk_cmd_buffers,
                         rebuildLocals, image_index, queue, windowSys, drawHistory,
                         loopHistory, rebuild_steps>>
       \/ Throw

\* drawFrame_Advance of a drawFrame that returns after a stale present without
\* advancing current_frame.
drawFrame_Advance_OnSuccessOnly ==
    /\ pc = "df_advance"
    /\ current_frame' = IF present_result = "success" THEN NextFrame(current_frame)
                        ELSE current_frame
    /\ frame_steps' = Append(frame_steps, "advance")
    /\ last_draw' = IF present_result = "success" THEN "present_ok" ELSE "present_stale"
    /\ image_index' = NoImage
    /\ pc' = "loop_cond"
    /\ UNCHANGED <<swapchain_rebuild_needed, initObjs, surfaceObjs, swapchainObjs,
                   vk_cmd_buffers, rebuildLocals, queue, windowSys,
                   entry_frame, acquire_result, acquired, presented, present_result,
                   loopHistory, rebuild_steps>>

\* current_frame = (current_frame + 1) % MAX_FRAMES_IN_FLIGHT (line 706); drawFrame
\* returns and runLoop goes on to its next iteration.
drawFrame_Advance ==
    /\ pc = "df_advance"
    /\ current_frame' = NextFrame(current_frame)
    /\ frame_steps' = Append(frame_steps, "advance")
    /\ last_draw' = IF present_result = "success" THEN "present_ok" ELSE "present_stale"
    /\ image_index' = NoImage
    /\ pc' = "loop_cond"
    /\ UNCHANGED <<swapchain_rebuild_needed, initObjs, surfaceObjs, swapchainObjs,
                   vk_cmd_buffers, rebuildLocals, queue, windowSys,
                   entry_frame, acquire_result, acquired, presented, present_result,
                   loopHistory, rebuild_steps>>

(***************************************************************************)
(* The GPU queue.                                                          *)
(***************************************************************************)

\* The queue executes its oldest operation.  A submission runs once the semaphore it
\* waits on is signaled: the wait unsignals it, and the end of the command buffer
\* signals the render-finished semaphore.  A present request's wait unsignals the
\* render-finished semaphore.  A submission that waits on a semaphore nothing will
\* signal is invalid use: the queue hangs, or runs it anyway.
GpuExecute ==
    /\ vk_device # NULL
    /\ queue # <<>>
    /\ LET op == Head(queue) IN
          \/ /\ op.kind = "submit"
             /\ At(vk_image_available_sema, op.slot)
             /\ vk_image_available_sema' = Put(vk_image_available_sema, op.slot, FALSE)
             /\ vk_render_finished_sema' = Put(vk_render_finished_sema, op.slot, TRUE)
          \/ /\ op.kind = "submit"
             /\ ~At(vk_image_available_sema, op.slot)
             /\ vk_render_finished_sema' = Put(vk_render_finished_sema, op.slot, TRUE)
             /\ UNCHANGED vk_image_available_sema
          \/ /\ op.kind = "present"
             /\ At(vk_render_finished_sema, op.slot)
             /\ vk_render_finished_sema' = Put(vk_render_finished_sema, op.slot, FALSE)
             /\ UNCHANGED vk_image_available_sema
    /\ queue' = Tail(queue)
    /\ UNCHANGED <<pc, appFlags, window, vk_device, vk_fences, startupObjs, surfaceObjs,
                   swapchainObjs,
                   vk_cmd_buffers, rebuildLocals, image_index, windowSys, drawHistory,
                   loopHistory, rebuild_steps>>

(***************************************************************************)
(* The program.                                                            *)
(***************************************************************************)

Next ==
    \/ init_initGlfw
    \/ init_gatherVkLayers
    \/ init_gatherVkExtensions
    \/ init_initInstance
    \/ init_initValidation
    \/ init_initWindow_Create
    \/ init_initWindow_SetCallback
    \/ init_initSurface_Create
    \/ init_initSurface_Assign
    \/ init_initPhysicalDevice
    \/ init_initDevice
    \/ init_initVertexBuffer
    \/ init_createSyncObjects
    \/ init_createRenderPass
    \/ init_createPipeline
    \/ main_Catch
    \/ runLoop_Cond
    \/ runLoop_PollEvents
    \/ runLoop_CheckRebuild
    \/ runLoop_WaitIdle
    \/ rebuildSwapchain_WaitIdle1
    \/ destroySwapchain_Framebuffers
    \/ destroySwapchain_ImageViews
    \/ destroySwapchain_Images
    \/ destroySwapchain_Swapchain
    \/ rebuildSwapchain_GetSize
    \/ rebuildSwapchain_SizeLoop
    \/ rebuildSwapchain_GetSizeAgain
    \/ rebuildSwapchain_WaitEvents
    \/ rebuildSwapchain_WaitIdle2
    \/ rebuildSwapchain_initSurface_Create
    \/ rebuildSwapchain_initSurface_Assign
    \/ rebuildSwapchain_SetExtent
    \/ rebuildSwapchain_WaitIdle3
    \/ createSwapchain
    \/ createImageViews
    \/ createFrameBuffers
    \/ rebuildSwapchain_ClearFlag
    \/ drawFrame_Acquire
    \/ drawFrame_Record
    \/ drawFrame_Submit
    \/ drawFrame_Present
    \/ drawFrame_WaitIdle
    \/ drawFrame_Advance
    \/ GpuExecute

Spec == Init /\ [][Next]_vars

\* init alone, up to the first test of runLoop, and main's catch.
StartupNext ==
    \/ init_initGlfw
    \/ init_gatherVkLayers
    \/ init_gatherVkExtensions
    \/ init_initInstance
    \/ init_initValidation
    \/ init_initWindow_Create
    \/ init_initWindow_SetCallback
    \/ init_initSurface_Create
    \/ init_initSurface_Assign
    \/ init_initPhysicalDevice
    \/ init_initDevice
    \/ init_initVertexBuffer
    \/ init_createSyncObjects
    \/ init_createRenderPass
    \/ init_createPipeline
    \/ main_Catch

\* The program and the queue keep taking steps while one is possible: the host thread
\* is never suspended for ever, the queue executes what it holds, and glfwWaitEvents
\* returns (events keep arriving).
SpecLive == Init /\ [][Next]_vars /\ WF_vars(Next)

\* The whole program on a GPU whose graphics family and present family differ.
SpecQueues == InitIn(QueueEnvironments) /\ [][Next]_vars

\* init over every build and every set of instance extensions, and over every list of
\* physical devices.
SpecExtensions == InitIn(ExtensionEnvironments) /\ [][StartupNext]_vars
SpecDevices == InitIn(DeviceEnvironments) /\ [][StartupNext]_vars

(***************************************************************************)
(* Properties.                                                             *)
(***************************************************************************)

\* The positions inside rebuildSwapchain and inside drawFrame.
RebuildPcs == {"rb_waitIdle1", "ds_framebuffers", "ds_imageviews", "ds_images",
               "ds_swapchain", "rb_getSize", "rb_sizeLoop", "rb_getSizeAgain",
               "rb_waitEvents", "rb_waitIdle2", "is_create", "is_assign", "rb_setExtent",
               "rb_waitIdle3", "rb_createSwapchain", "rb_createImageViews",
               "rb_createFrameBuffers", "rb_clearFlag"}
DrawPcs == {"df_acquire", "df_record", "df_submit", "df_present", "df_waitIdle",
            "df_advance"}
LoopPcs == {"loop_cond", "poll", "check_rebuild"}
\* The positions inside init, and those inside runLoop.
InitPcs == {"init", "in_layers", "in_extensions", "in_instance", "in_validation",
            "in_window", "in_window_cb", "in_is_create", "in_is_assign", "in_physdev",
            "in_device", "in_vertexbuf", "in_sync", "in_renderpass", "in_pipeline"}
RunLoopPcs == LoopPcs \cup RebuildPcs \cup DrawPcs \cup {"exit_waitIdle"}

IsPrefix(s, t) == Len(s) <= Len(t) /\ \A i \in 1 .. Len(s) : s[i] = t[i]

FullFrame == <<"acquire", "record", "submit", "present", "advance">>

\* C1: the steps of a drawFrame call happen in the order acquire, record, submit,
\* present, advance, none twice and none before its predecessor (a call that an
\* exception ends has done a prefix of them); a call whose acquire delivered an image
\* and that returned has done all five, and its present was for the image the acquire
\* delivered.
C1_FrameStepsInOrder ==
    /\ IsPrefix(frame_steps, FullFrame)
    /\ (acquire_result = "success" /\ presented # NoImage) => presented = acquired
    /\ (pc = "loop_cond" /\ acquire_result = "success") =>
          /\ frame_steps = FullFrame
          /\ presented = acquired
          /\ current_frame = (entry_frame + 1) % MAX_FRAMES_IN_FLIGHT

\* A frame on the second image of a swapchain went through all five steps.
C1_Witness ==
    /\ pc = "loop_cond"
    /\ acquire_result = "success"
    /\ frame_steps = FullFrame
    /\ acquired = 1
    /\ presented = 1

\* C2: after a present that reported suboptimal or out-of-date, drawFrame has only
\* set swapchain_rebuild_needed (no step of rebuildSwapchain runs inside drawFrame,
\* and the swapchain it drew to is still there when it returns); the flag stays set up
\* to the rebuild, and exactly one rebuildSwapchain call has finished when drawFrame
\* is entered next.
C2_RebuildDeferred ==
    /\ pc \in DrawPcs \cup LoopPcs => rebuild_steps = <<>>
    /\ (pc \in {"df_waitIdle", "df_advance"} /\ present_result \in {"suboptimal", "out_of_date"}) =>
          swapchain_rebuild_needed /\ vk_swapchain # None
    /\ (pc \in LoopPcs /\ last_draw = "present_stale" /\ ~should_close) =>
          swapchain_rebuild_needed /\ vk_swapchain # None /\ rebuilds_since_draw = 0
    /\ (pc = "df_acquire" /\ last_draw = "present_stale") => rebuilds_since_draw = 1
    /\ rebuilds_since_draw <= 1

\* drawFrame is about to run after the one rebuild that followed a stale present.
C2_Witness ==
    /\ pc = "df_acquire"
    /\ last_draw = "present_stale"
    /\ rebuilds_since_draw = 1
    /\ ~swapchain_rebuild_needed

\* C3: a resize event that glfwPollEvents delivers sets swapchain_rebuild_needed;
\* drawFrame is never entered with the flag set, and when it is entered after such an
\* event a rebuildSwapchain call has finished since the last frame.
C3_ResizeRebuildsBeforeDraw ==
    /\ (pc = "check_rebuild" /\ polled_resize) => swapchain_rebuild_needed
    /\ pc = "df_acquire" => ~swapchain_rebuild_needed
    /\ (pc = "df_acquire" /\ polled_resize) => rebuilds_since_draw = 1

\* After a frame that presented well, a resize was polled and the swapchain rebuilt.
C3_Witness ==
    /\ pc = "df_acquire"
    /\ polled_resize
    /\ last_draw = "present_ok"
    /\ rebuilds_since_draw = 1
    /\ value(vk_swapchain).extent = win_size

\* C4: the step of drawFrame in which the acquire reports out-of-date sets
\* swapchain_rebuild_needed and returns to runLoop, having recorded no command buffer,
\* submitted and presented nothing, touched no semaphore and left current_frame as it
\* was.
C4_AcquireStaleReturns ==
    [][(pc = "df_acquire" /\ acquire_result' = "out_of_date") =>
          /\ swapchain_rebuild_needed'
          /\ pc' = "loop_cond"
          /\ frame_steps' = <<"acquire">>
          /\ UNCHANGED <<current_frame, vk_cmd_buffers, queue, vk_image_available_sema,
                         vk_render_finished_sema>>]_vars

\* drawFrame returned on a stale acquire in the second frame slot.
C4_Witness ==
    /\ pc = "loop_cond"
    /\ last_draw = "acquire_stale"
    /\ acquire_result = "out_of_date"
    /\ swapchain_rebuild_needed
    /\ current_frame = 1
    /\ entry_frame = 1

\* The submissions in the queue.
Submissions == {i \in 1 .. Len(queue) : queue[i].kind = "submit"}

\* C5: the queue never holds more than one submission, and it is empty whenever the
\* program is anywhere but between its submit and the end of its queue wait: when it
\* tests the loop condition, polls, rebuilds, acquires or re-records a command
\* buffer, nothing submitted earlier is pending.
C5_OneSubmissionOutstanding ==
    /\ Cardinality(Submissions) <= 1
    /\ pc \in LoopPcs \cup RebuildPcs \cup {"exit_waitIdle", "df_acquire", "df_record",
                                           "df_submit", "df_advance"} =>
          queue = <<>>

\* A command buffer that an earlier frame submitted is about to be reset and recorded
\* again.
C5_Witness ==
    /\ pc = "df_record"
    /\ At(vk_cmd_buffers, current_frame).state = "executable"
    /\ queue = <<>>

\* C6: the per-slot fences order the submissions: every submission in the queue
\* signals the fence of its frame slot, and a frame that is about to reuse a slot's
\* command buffer and semaphores has waited on and reset that slot's fence, which is
\* therefore unsignaled until the frame's submission completes.
C6_FencesOrderSubmissions ==
    /\ \A i \in Submissions : queue[i].fence = {queue[i].slot}
    /\ pc \in {"df_record", "df_submit", "df_present"} => ~At(vk_fences, current_frame)

\* C7: the submission of a frame waits on the image-available semaphore of the
\* current slot and signals the render-finished semaphore of that slot, which the
\* frame's present waits on; when the command buffer is recorded and submitted the
\* frame's acquire has signaled the image-available semaphore; and between frames
\* every signal has been consumed, so that no semaphore is signaled.
C7_SemaphorePairing ==
    /\ \A i \in 1 .. Len(queue) : queue[i].slot = current_frame
    /\ pc \in {"df_record", "df_submit"} => At(vk_image_available_sema, current_frame)
    /\ pc \in LoopPcs \cup RebuildPcs \cup {"df_acquire", "exit_waitIdle"} =>
          \A slot \in Slots : /\ ~At(vk_image_available_sema, slot)
                              /\ ~At(vk_render_finished_sema, slot)

\* C8: current_frame is 0 or 1 and starts at 0; a drawFrame call that reached its
\* present has toggled it, and one that returned on a stale acquire has left it; from
\* the end of init to the end of runLoop the two semaphore vectors, the fences
\* and the command buffers hold MAX_FRAMES_IN_FLIGHT elements each.
C8_FrameIndexInRange ==
    /\ current_frame \in {0, 1}
    /\ pc = "init" => current_frame = 0
    /\ pc \in InitPcs => current_frame = 0
    /\ (pc \in RunLoopPcs \/ (pc = "thrown" /\ thrown_from \in RunLoopPcs)) =>
          /\ Len(vk_image_available_sema) = 2
          /\ Len(vk_render_finished_sema) = 2
          /\ Len(vk_fences) = 2
          /\ Len(vk_cmd_buffers) = 2
    /\ (pc = "loop_cond" /\ last_draw \in {"present_ok", "present_stale"}) =>
          current_frame = 1 - entry_frame
    /\ (pc = "loop_cond" /\ last_draw = "acquire_stale") => current_frame = entry_frame
    /\ pc \in DrawPcs \ {"df_acquire"} => current_frame = entry_frame

\* A frame drawn in slot 1 has brought current_frame back to 0.
C8_Witness ==
    /\ pc = "loop_cond"
    /\ last_draw = "present_ok"
    /\ entry_frame = 1
    /\ current_frame = 0

\* C9: while destroySwapchain runs inside rebuildSwapchain, the first thing the
\* rebuild did was a device.waitIdle() that returned, and no submission or present
\* request is pending in the queue.
C9_DestroyAfterIdle ==
    pc \in {"ds_framebuffers", "ds_imageviews", "ds_images", "ds_swapchain"} =>
       /\ rebuild_steps # <<>>
       /\ rebuild_steps[1] = "waitIdle"
       /\ queue = <<>>

\* The framebuffers that an executed command buffer was recorded against are about
\* to be destroyed.
C9_Witness ==
    /\ pc = "ds_framebuffers"
    /\ vk_sc_framebuffers # <<>>
    /\ \E slot \in Slots : At(vk_cmd_buffers, slot).state = "executable"
    /\ last_draw = "present_stale"

RebuildOrder ==
    <<"waitIdle", "destroyFramebuffers", "destroyImageViews", "destroySwapchain",
      "waitIdle", "createSurface", "replaceSurface", "waitIdle", "createSwapchain",
      "createImageViews", "createFrameBuffers">>

\* C10: every framebuffer has the image view it was made for, every image view has
\* the swapchain that owns its image, and a swapchain has the surface it was created
\* on, which is still the application's surface; rebuildSwapchain does its steps in
\* the order destroy framebuffers, destroy image views, destroy swapchain, replace
\* surface, create swapchain, create image views, create framebuffers, and ends with
\* one image view per swapchain image and one framebuffer per image view.
C10_DependencyOrder ==
    /\ \A i \in 1 .. Len(vk_sc_framebuffers) :
          /\ i <= Len(vk_sc_imageviews)
          /\ vk_sc_framebuffers[i].attachment = vk_sc_imageviews[i].image
    /\ \A i \in 1 .. Len(vk_sc_imageviews) :
          /\ vk_swapchain # None
          /\ i <= Len(vk_sc_images)
          /\ vk_sc_imageviews[i].image = vk_sc_images[i]
          /\ vk_sc_imageviews[i].image < value(vk_swapchain).n_images
    /\ vk_swapchain # None =>
          /\ value(vk_swapchain).surface = vk_surface
          /\ value(vk_swapchain).surface \in live_surfaces
    /\ pc \in RebuildPcs => IsPrefix(rebuild_steps, RebuildOrder)
    /\ pc = "rb_clearFlag" =>
          /\ rebuild_steps = RebuildOrder
          /\ Len(vk_sc_images) = value(vk_swapchain).n_images
          /\ Len(vk_sc_imageviews) = Len(vk_sc_images)
          /\ Len(vk_sc_framebuffers) = Len(vk_sc_imageviews)

\* A rebuild that replaced an earlier swapchain has made its two framebuffers.
C10_Witness ==
    /\ pc = "rb_clearFlag"
    /\ last_draw # "none"
    /\ Len(vk_sc_framebuffers) = 2
    /\ rebuild_steps = RebuildOrder

\* Nothing of runLoop has happened: no event polled, no rebuild begun, no frame begun,
\* nothing submitted.
LoopNotEntered ==
    /\ last_draw = "none"
    /\ frame_steps = <<>>
    /\ rebuild_steps = <<>>
    /\ queue = <<>>
    /\ vk_swapchain = None
    /\ ~polled_resize
    /\ swapchain_rebuild_needed
    /\ current_frame = 0

\* C11: an exception thrown by a step of init is in flight to, or has reached, the
\* catch of main, where the process ends with failure status, and nothing of runLoop
\* has happened; so runLoop runs only where no step of init failed: every extension
\* GLFW requires (and debug-utils in a debug build) is available, a GPU was selected,
\* and the instance, window, surface, device, vertex buffer, render pass and pipeline
\* exist.
C11_InitFailureExits ==
    /\ thrown_from \in InitPcs => pc \in {"thrown", "failed"} /\ LoopNotEntered
    /\ pc \in InitPcs => LoopNotEntered /\ thrown_from = "none"
    /\ pc \in RunLoopPcs =>
          /\ thrown_from = "none"
          /\ Range(env.glfw_extensions) \subseteq env.available_extensions
          /\ env.enable_validation_layers =>
                VK_EXT_DEBUG_UTILS_EXTENSION_NAME \in env.available_extensions
          /\ vk_physical_device # None
          /\ vk_q_families_info # None
          /\ vk_instance # NULL /\ window # NULL /\ vk_device # NULL
          /\ vk_vertex_buffer # NULL /\ vk_render_pass # NULL /\ vk_pipeline # NULL

\* The process has ended in main's catch on a surface that could not be created.
C11_Witness ==
    /\ pc = "failed"
    /\ thrown_from = "in_is_create"
    /\ LoopNotEntered

\* C12: an exception that leaves a step of runLoop goes to main's catch (the program
\* takes no other step while it is in flight; the queue may still execute), where the
\* process ends with failure status, and a process that has ended does nothing more
\* (no call is retried); inside drawFrame swapchain_rebuild_needed becomes set only on
\* out-of-date from the acquire and on out-of-date or suboptimal from the present, and
\* the drawFrame call that follows either of them comes after one rebuildSwapchain.
C12_OnlyStaleRecovered ==
    /\ [][/\ pc = "thrown" => pc' \in {"thrown", "failed"}
          /\ pc \notin Stopped
          /\ (pc' = "thrown" /\ pc \in RunLoopPcs) => thrown_from' = pc
          /\ (pc \in DrawPcs /\ pc' \in RunLoopPcs
                /\ ~swapchain_rebuild_needed /\ swapchain_rebuild_needed') =>
                \/ acquire_result' = "out_of_date"
                \/ present_result' \in {"out_of_date", "suboptimal"}]_vars
    /\ []((pc = "df_acquire" /\ last_draw \in {"acquire_stale", "present_stale"}) =>
             rebuilds_since_draw = 1)

\* The process has ended in main's catch on an error of queue.submit.
C12_Witness ==
    /\ pc = "failed"
    /\ thrown_from = "df_submit"
    /\ frame_steps = <<"acquire", "record">>

\* C13: the shader files are read by createPipeline only, each once and in its order,
\* so that the reads made so far are a prefix of the two paths and are exactly the two
\* paths from the moment runLoop is entered; no step of runLoop, rebuildSwapchain or
\* drawFrame reads a shader or replaces the render pass or the pipeline.
C13_ShadersReadOnceInInit ==
    /\ [](IsPrefix(shader_reads, ShaderPaths))
    /\ [](pc \in RunLoopPcs =>
             shader_reads = ShaderPaths /\ vk_render_pass # NULL /\ vk_pipeline # NULL)
    /\ [](pc \in InitPcs \ {"in_pipeline"} => shader_reads = <<>>)
    /\ [][(pc \in RunLoopPcs /\ pc' \in RunLoopPcs \cup {"thrown"}) =>
             UNCHANGED <<shader_reads, vk_render_pass, vk_pipeline>>]_vars

\* Frames were drawn and a later rebuildSwapchain has made its new framebuffers, with
\* each shader read once and the pipeline of init still in place.
C13_Witness ==
    /\ pc = "rb_clearFlag"
    /\ last_draw \notin {"none", "running"}
    /\ vk_sc_framebuffers # <<>>
    /\ shader_reads = ShaderPaths
    /\ vk_pipeline # NULL
    /\ shader_reads = ShaderPaths

\* C14: every step of init finds initialized what it reads: initValidation the
\* instance; the second half of initWindow the window it created; initSurface the
\* instance and the window; initPhysicalDevice the instance, the surface and the
\* window; initDevice the physical device and its queue families; initVertexBuffer
\* the physical device and the device; createSyncObjects the device; createRenderPass
\* the device and the surface information; createPipeline the device, the surface
\* information and the render pass.
C14_InitStepsFindComponents ==
    /\ pc = "in_instance" => instance_extensions # <<>> \/ env.glfw_extensions = <<>>
    /\ pc = "in_validation" => vk_instance # NULL
    /\ pc = "in_window_cb" => window # NULL
    /\ pc = "in_is_create" => vk_instance # NULL /\ window # NULL
    /\ pc = "in_is_assign" => vk_instance # NULL /\ raii_surface # NULL
    /\ pc = "in_physdev" => vk_instance # NULL /\ vk_surface # NULL /\ window # NULL
    /\ pc = "in_device" => vk_physical_device # None /\ vk_q_families_info # None
    /\ pc = "in_vertexbuf" => vk_physical_device # None /\ vk_device # NULL
    /\ pc = "in_sync" => vk_device # NULL
    /\ pc = "in_renderpass" => vk_device # NULL /\ vk_surface_info # None
    /\ pc = "in_pipeline" =>
          vk_device # NULL /\ vk_surface_info # None /\ vk_render_pass # NULL

\* Every extension gatherVkExtensions needs is among those the loader enumerates.
ExtensionsAvailable ==
    /\ \A i \in DOMAIN env.glfw_extensions :
          env.glfw_extensions[i] \in env.available_extensions
    /\ env.enable_validation_layers =>
          VK_EXT_DEBUG_UTILS_EXTENSION_NAME \in env.available_extensions

\* gatherVkExtensions was called and has ended, by return or by exception.
gatherVkExtensions_Ended ==
    /\ pc \notin {"init", "in_layers", "in_extensions"}
    /\ thrown_from \notin {"init", "in_layers"}

\* C15: gatherVkExtensions ends without exception exactly when every extension GLFW
\* requires, and debug-utils in a debug build, is available; it then leaves in
\* instance_extensions the extensions GLFW requires, in GLFW's order, followed by
\* debug-utils in a debug build; when it throws no instance exists, and an instance
\* exists only where the extensions are available.
C15_ExtensionsGathered ==
    /\ gatherVkExtensions_Ended => (thrown_from = "in_extensions" <=> ~ExtensionsAvailable)
    /\ pc = "in_instance" =>
          instance_extensions =
             env.glfw_extensions \o
                (IF env.enable_validation_layers
                 THEN <<VK_EXT_DEBUG_UTILS_EXTENSION_NAME>> ELSE <<>>)
    /\ thrown_from = "in_extensions" => vk_instance = NULL
    /\ vk_instance # NULL => ExtensionsAvailable

\* gatherVkExtensions has returned in a debug build where GLFW requires two extensions.
C15_Witness ==
    /\ pc = "in_instance"
    /\ env.enable_validation_layers
    /\ Len(env.glfw_extensions) = 2
    /\ Len(instance_extensions) = 3

\* The device at position k of the enumeration has a graphics family and a family
\* that can present to the surface, all the required device extensions, and the
\* window system's presentation support for its present family (the last of its
\* families that can present to the surface, as QueueFamiliesInfo::from records it).
Qualifies(k) ==
    LET d == env.physical_devices[k]
        presenting == {i \in DOMAIN d.families : d.families[i].surface_support} IN
    /\ \E i \in DOMAIN d.families : d.families[i].graphics
    /\ presenting # {}
    /\ Range(REQUIRED_DEVICE_EXTENSIONS) \subseteq d.extensions
    /\ \A i \in presenting : (\A j \in presenting : j <= i) => d.families[i].presentation

\* C16: the device initPhysicalDevice selects is the first of the enumeration that
\* qualifies, and the family indices it records are families of that device, the
\* first with the graphics flag and the second able to present to the surface with
\* the window system's support; init goes on past initPhysicalDevice only with a
\* device selected, and when no device qualifies none is selected and
\* initPhysicalDevice throws.
C16_FirstQualifyingDevice ==
    /\ vk_physical_device # None =>
          LET k == value(vk_physical_device)
              families == env.physical_devices[k].families
              info == value(vk_q_families_info) IN
          /\ k \in DOMAIN env.physical_devices
          /\ Qualifies(k)
          /\ \A j \in 1 .. k - 1 : ~Qualifies(j)
          /\ vk_q_families_info # None
          /\ info.graphics_family_idx + 1 \in DOMAIN families
          /\ info.present_family_idx + 1 \in DOMAIN families
          /\ families[info.graphics_family_idx + 1].graphics
          /\ families[info.present_family_idx + 1].surface_support
          /\ families[info.present_family_idx + 1].presentation
    /\ pc \in {"in_device", "in_vertexbuf", "in_sync", "in_renderpass", "in_pipeline",
               "loop_cond"} => vk_physical_device # None
    /\ thrown_from = "in_physdev" => vk_physical_device = None
    /\ (pc = "failed" /\ \A k \in DOMAIN env.physical_devices : ~Qualifies(k)) =>
          thrown_from \in {"init", "in_layers", "in_extensions", "in_instance",
                           "in_validation", "in_is_create", "in_physdev"}

\* The second device of the enumeration was selected, its graphics family and its
\* present family being different families.
C16_Witness ==
    /\ pc = "in_device"
    /\ vk_physical_device = Some(2)
    /\ value(vk_q_families_info).graphics_family_idx #
          value(vk_q_families_info).present_family_idx

\* C17: when drawFrame submits, its slot's command buffer was reset and recorded in
\* this frame with the fixed sequence begin, beginRenderPass, bindPipeline,
\* setViewport, setScissor, bindVertexBuffers, draw, endRenderPass, end; the render
\* pass was begun on the framebuffer of the image this frame's acquire delivered and
\* ended before the buffer, which is executable.
C17_CommandBufferRecorded ==
    pc = "df_submit" =>
       LET cmd_buf == At(vk_cmd_buffers, current_frame) IN
       /\ cmd_buf.state = "executable"
       /\ ~cmd_buf.in_render_pass
       /\ cmd_buf.commands = Tail(RecordedCommands)
       /\ acquired # NoImage
       /\ cmd_buf.framebuffer = acquired

\* C18: a present that reports out-of-date or suboptimal is followed by the same wait
\* and the same advance as a successful one: drawFrame waits for the empty queue
\* whatever the present reported, and returns with all five steps of the frame done,
\* the queue empty and current_frame one slot further; swapchain_rebuild_needed is
\* then set exactly when the present was stale.
C18_StalePresentCompletesFrame ==
    /\ pc = "df_waitIdle" => present_result \in {"success", "suboptimal", "out_of_date"}
    /\ pc = "df_advance" => queue = <<>> /\ current_frame = entry_frame
    /\ (pc = "loop_cond" /\ last_draw \in {"present_ok", "present_stale"}) =>
          /\ frame_steps = FullFrame
          /\ queue = <<>>
          /\ current_frame = (entry_frame + 1) % MAX_FRAMES_IN_FLIGHT
          /\ last_draw = "present_stale" <=> present_result \in {"suboptimal", "out_of_date"}
          /\ swapchain_rebuild_needed <=> last_draw = "present_stale"

\* drawFrame has returned after a present that reported suboptimal, from slot 1 to
\* slot 0.
C18_Witness ==
    /\ pc = "loop_cond"
    /\ present_result = "suboptimal"
    /\ entry_frame = 1
    /\ current_frame = 0
    /\ swapchain_rebuild_needed

\* C19: when rebuildSwapchain has returned with swapchain_rebuild_needed cleared and
\* no resize event waits to be delivered, the swapchain and every framebuffer have
\* the window's framebuffer size.
C19_NoResizeLost ==
    (pc = "df_acquire" /\ rebuilds_since_draw = 1 /\ ~swapchain_rebuild_needed
        /\ ~resize_pending) =>
       /\ value(vk_swapchain).extent = win_size
       /\ \A i \in DOMAIN vk_sc_framebuffers : vk_sc_framebuffers[i].extent = win_size

\* C20: when drawFrame records, submits and presents, its acquire delivered an image
\* and the index it uses is one of vk_sc_framebuffers.
C20_AcquireDelivered ==
    pc \in {"df_record", "df_submit", "df_present"} =>
       /\ acquire_result = "success"
       /\ image_index < Len(vk_sc_framebuffers)

\* The extent overwriteCommandBuffer takes for the render area, the viewport and the
\* scissor (src/src/main.cpp:631, 638-643).
RenderArea == value(vk_surface_info).extent

\* C21: while drawFrame runs a swapchain exists, its extent has non-zero width and
\* height, there are as many images as image views as framebuffers, and every
\* framebuffer has the extent of the swapchain, which is the extent taken for the
\* render area, viewport and scissor; rebuildSwapchain leaves its size loop, and
\* creates the surface and the swapchain, only with a non-zero width and height, and
\* no swapchain has a zero extent.
C21_SwapchainWellFormed ==
    /\ pc \in DrawPcs =>
          /\ vk_swapchain # None
          /\ vk_surface_info # None
          /\ Len(vk_sc_images) = value(vk_swapchain).n_images
          /\ Len(vk_sc_imageviews) = Len(vk_sc_images)
          /\ Len(vk_sc_framebuffers) = Len(vk_sc_imageviews)
          /\ Len(vk_sc_framebuffers) > 0
          /\ \A i \in DOMAIN vk_sc_framebuffers :
                /\ vk_sc_framebuffers[i].extent = RenderArea
                /\ vk_sc_framebuffers[i].extent = value(vk_swapchain).extent
    /\ pc \in {"rb_waitIdle2", "is_create", "is_assign", "rb_setExtent", "rb_waitIdle3",
               "rb_createSwapchain", "rb_createImageViews", "rb_createFrameBuffers",
               "rb_clearFlag"} => width > 0 /\ height > 0
    /\ vk_swapchain # None =>
          value(vk_swapchain).extent.width > 0 /\ value(vk_swapchain).extent.height > 0

\* drawFrame is entered after a rebuild that followed a stale acquire, on a swapchain
\* of two images and of the largest extent, while the window is minimized.
C21_Witness ==
    /\ pc = "df_acquire"
    /\ last_draw = "acquire_stale"
    /\ Len(vk_sc_framebuffers) = MaxImages
    /\ RenderArea = [width |-> MaxWidth, height |-> MaxHeight]
    /\ win_size = ZeroSize

\* C22: every present request in the queue was issued on a queue whose family can
\* present to the surface (getSurfaceSupportKHR of the selected device for that
\* family).
C22_PresentOnPresentingFamily ==
    vk_physical_device # None =>
       \A i \in DOMAIN queue :
          queue[i].kind = "present" =>
             env.physical_devices[value(vk_physical_device)]
                .families[queue[i].family + 1].surface_support

\* C23: the queue create infos the device was created with name pairwise distinct
\* queue family indices.
C23_DistinctQueueFamilies ==
    \A i, j \in DOMAIN qc_infos : i # j => qc_infos[i] # qc_infos[j]

\* C24: at most one surface of the window is alive at every moment.
C24_OneLiveSurface == Cardinality(live_surfaces) <= 1

\* C26: when the process has left runLoop and destroyed the App's Vulkan objects, by
\* return or by exception, nothing submitted to the queue was still waiting or
\* executing.
C26_IdleAtShutdown == pc \in Stopped => queue = <<>>

\* C25: once the close of the window has been requested, the process leaves runLoop
\* and ends.
C25_CloseTerminates == should_close ~> (pc \in Stopped)

====
